---------------------------- MODULE Spec2Model ----------------------------
(***************************************************************************)
(* The incremental DECT MAC frame decoder of src/src/decode.rs, with the   *)
(* CRC and the field model of src/src/dect.rs.                             *)
(*                                                                         *)
(* A u64 is held as its eight big-endian octets <<b0, ..., b7>> (b7 the    *)
(* least significant), because the model checker's integers are 32 bits    *)
(* wide: u64::from_be_bytes and u64::to_be_bytes are the two directions of *)
(* that representation, and n & 0xffffff is the number made of b5, b6, b7. *)
(* A panic of the program is the result kind "Panic".                      *)
(***************************************************************************)
EXTENDS Integers, Sequences, FiniteSets, TLC

VARIABLES
    bits,      \* Decoder.bits: the BitIterator [inner, bit, index]
    state,     \* Decoder.state: the ChannelState
    ret,       \* what the last parse() returned (kind "None" before the first)
    call,      \* the last call: its name, the decoder as it was on entry,
               \* and the A-field block the call read (<<>> if none)
    afield,    \* the last A-field block read and the bit position it
               \* was read from
    stdout,    \* what was printed so far: "CRC error!" lines and packets
    source,    \* the bytes the data source has not supplied yet
    chunk,     \* the most bytes one recv() of the data source returns
    pc,        \* where the loop of run() is: "parse" or "recv"
    crcIn,     \* the 8 bytes Rcrc::crc is applied to (<<>> if none)
    crcOut,    \* what Rcrc::crc returned for them (kind "None" before)
    token,     \* capture: the CancellationToken is cancelled
    orch,      \* capture: where run() of capture.rs is
    chan,      \* capture: per channel, its set-up and its spawned task
    strm       \* the packet stream of a data source (into_stream)

\* the variables of the decoder and of its loop
decVars == <<bits, state, ret, call, afield, stdout, source, chunk, pc>>
\* the variables of a call of Rcrc::crc
crcVars == <<crcIn, crcOut>>

\* the variables of run() of capture.rs
capVars == <<token, orch, chan>>
\* the variables no method of the decoder touches
nonDecVars == <<crcVars, capVars, strm>>

vars == <<decVars, crcVars, capVars, strm>>

-----------------------------------------------------------------------------
(* Program constants.                                                      *)

FP_SYNC == 11200906      \* 0xAAE98A
PP_SYNC == 5576309       \* 0x551675
GP == 1417               \* 0x0589

\* BFieldIdentification discriminants the length table names
DoubleSlotRequired == 2
HalfSlotRequired == 4
NoSlotRequired == 7
\* the largest discriminant of TailIdentificationPP and BFieldIdentification
MtFirstPPTransmission == 7

-----------------------------------------------------------------------------
(* Bit-level views of a byte vector (bitvec's as_bits::<Msb0>()).          *)

Pow2(n) == 2 ^ n

\* the number of bits of the Msb0 view of inner
BitLen(inner) == 8 * Len(inner)

\* bit number pos (0 = most significant bit of the first byte) of inner
BitAt(inner, pos) == (inner[(pos \div 8) + 1] \div Pow2(7 - (pos % 8))) % 2

\* the eight bits pos .. pos+7 of inner, most significant first, as a number
ByteAt(inner, pos) ==
    LET i == pos \div 8
        b == pos % 8
    IN  IF b = 0
        THEN inner[i + 1]
        ELSE ((inner[i + 1] * Pow2(b)) % 256) + (inner[i + 2] \div Pow2(8 - b))

\* the u64 read from the 64 bits pos .. pos+63 (read_exact, then from_be_bytes)
WindowAt(inner, pos) == [j \in 1..8 |-> ByteAt(inner, pos + 8 * (j - 1))]

\* n & 0xffffff of a u64
Low24(n) == n[6] * 65536 + n[7] * 256 + n[8]

-----------------------------------------------------------------------------
(* BitIterator.                                                            *)

BitIterator_new(inner) == [inner |-> inner, bit |-> 7, index |-> 0]

\* start = self.index * 8 + self.bit as usize
StartOf(it) == it.index * 8 + it.bit

\* a len() that forgets the cursor: self.inner.len() + self.bit
BitIterator_len_whole(it) == [kind |-> "Ok", n |-> Len(it.inner) + it.bit]

\* BitIterator::len: self.inner[self.index..].len() + self.bit
\* (slicing panics when index is past the end: kind "Panic")
BitIterator_len(it) ==
    IF it.index > Len(it.inner)
    THEN [kind |-> "Panic", n |-> 0]
    ELSE [kind |-> "Ok", n |-> (Len(it.inner) - it.index) + it.bit]

\* a check that takes the number of bits asked for as a number of bytes
NeedMoreData_bytes(it, n) == BitIterator_len(it).n < n \div 8

\* a check that never asks for more data
NeedMoreData_never(it, n) == FALSE

\* the check "Do we have enough data to parse?": self.bits.len() < n
NeedMoreData(it, n) == BitIterator_len(it).n < n

\* an extend that puts the new bytes in front of the stored ones
BitIterator_extend_front(it, iter) == [it EXCEPT !.inner = iter \o it.inner]

\* impl Extend<u8> for BitIterator
BitIterator_extend(it, iter) == [it EXCEPT !.inner = it.inner \o iter]

\* BitIterator::peek_bits: the next n bits from start, or None; the cursor
\* is not moved.  as_bits()[start..] panics when start is past the end.
peek_bits(it, n) ==
    LET start == StartOf(it)
    IN  IF start > BitLen(it.inner)
        THEN [kind |-> "Panic", bits |-> <<>>]
        ELSE IF BitLen(it.inner) - start < n
        THEN [kind |-> "None", bits |-> <<>>]
        ELSE [kind |-> "Some",
              bits |-> [k \in 1..n |-> BitAt(it.inner, start + k - 1)]]

\* a cursor step that goes on to the next byte
StepCursor_byte(it) == [it EXCEPT !.bit = 7, !.index = it.index + 1]

\* the cursor step at the end of Iterator::next
StepCursor(it) ==
    IF it.bit = 0
    THEN [it EXCEPT !.bit = 7, !.index = it.index + 1]
    ELSE [it EXCEPT !.bit = it.bit - 1]

\* impl Iterator for BitIterator: next (start is the bit position read from)
BitIterator_next(it) ==
    LET start == StartOf(it)
    IN  IF start > BitLen(it.inner)
        THEN [kind |-> "Panic", value |-> <<>>, start |-> start, it |-> it]
        ELSE IF BitLen(it.inner) - start < 64
        THEN [kind |-> "None", value |-> <<>>, start |-> start, it |-> it]
        ELSE [kind |-> "Some",
              value |-> WindowAt(it.inner, start),
              start |-> start,
              it |-> StepCursor(it)]

\* Iterator::nth(n): n calls of next whose values are dropped, then one
\* more; None as soon as one of them is None
RECURSIVE nth(_, _)
nth(it, n) ==
    LET r == BitIterator_next(it)
    IN  IF r.kind # "Some" THEN r
        ELSE IF n = 0 THEN r
        ELSE nth(r.it, n - 1)

\* a sync search that compares only the low 16 bits
IsSync_low16(n) ==
    \/ Low24(n) % 65536 = FP_SYNC % 65536
    \/ Low24(n) % 65536 = PP_SYNC % 65536

\* the predicate of the sync search
IsSync(n) == Low24(n) = FP_SYNC \/ Low24(n) = PP_SYNC

\* the number of next() calls find makes per evaluation batch
FindBatch == 64

\* at most n iterations of the loop of Iterator::find
RECURSIVE find_upto(_, _)
find_upto(it, n) ==
    IF n = 0 THEN [kind |-> "More", value |-> <<>>, start |-> 0, it |-> it]
    ELSE LET r == BitIterator_next(it)
         IN  IF r.kind # "Some" THEN r
             ELSE IF IsSync(r.value) THEN r
             ELSE find_upto(r.it, n - 1)

\* Iterator::find with the sync predicate: next() until a value matches
\* (Some) or next() is None
RECURSIVE find(_)
find(it) ==
    LET r == find_upto(it, FindBatch)
    IN  IF r.kind = "More" THEN find(r.it) ELSE r

-----------------------------------------------------------------------------
(* The CRC of an 8-byte block (src/src/dect.rs), on u16 and u8 arithmetic. *)

\* a ^ b on the low n bits
RECURSIVE Xor(_, _, _)
Xor(a, b, n) ==
    IF n = 0 THEN 0
    ELSE ((a + b) % 2) + 2 * Xor(a \div 2, b \div 2, n - 1)

\* a shift that leaves the incoming bit out
ShiftIn_no_bit(c, next) == (c * 2) % 65536

\* crc <<= 1; crc |= if (next & 0x80) == 0 { 0 } else { 1 }
ShiftIn(c, next) == ((c * 2) % 65536) + (IF next < 128 THEN 0 ELSE 1)

\* the innermost loop: while (crc & 0x8000) == 0 { shift; x += 1;
\* if x > 7 { break } }
RECURSIVE crc_zero_run(_, _, _)
crc_zero_run(c, next, x) ==
    IF c < 32768
    THEN LET c2 == ShiftIn(c, next)
             n2 == (next * 2) % 256
         IN  IF x + 1 > 7
             THEN [crc |-> c2, next |-> n2, x |-> x + 1]
             ELSE crc_zero_run(c2, n2, x + 1)
    ELSE [crc |-> c, next |-> next, x |-> x]

\* the loop over the bits of one byte: while x < 8 { ... crc ^= GP }
RECURSIVE crc_byte(_, _, _)
crc_byte(c, next, x) ==
    IF x < 8
    THEN LET r == crc_zero_run(c, next, x)
         IN  IF r.x > 7
             THEN r.crc
             ELSE crc_byte(Xor(ShiftIn(r.crc, r.next), GP, 16),
                           (r.next * 2) % 256, r.x + 1)
    ELSE c

\* the loop over the bytes 2..7: while y < 6 { next = self[2 + y]; ... }
RECURSIVE crc_bytes(_, _, _)
crc_bytes(block, c, y) ==
    IF y < 6
    THEN crc_bytes(block, crc_byte(c, block[2 + y + 1], 0), y + 1)
    ELSE c

\* a crc without the last crc ^= 1
crc_no_final(block) == crc_bytes(block, block[1] * 256 + block[2], 0)

\* impl Rcrc for [u8; 8]: crc
crc(block) == Xor(crc_bytes(block, block[1] * 256 + block[2], 0), 1, 16)

-----------------------------------------------------------------------------
(* The field model (src/src/dect.rs).  An enum value is its discriminant.  *)

\* a conversion that rejects the last discriminant
TailIdentificationPP_from_strict(ident) ==
    IF ident >= MtFirstPPTransmission
    THEN [kind |-> "Panic", v |-> ident]
    ELSE [kind |-> "Ok", v |-> ident]

\* impl From<u8> for TailIdentificationPP
TailIdentificationPP_from(ident) ==
    IF ident > MtFirstPPTransmission
    THEN [kind |-> "Panic", v |-> ident]
    ELSE [kind |-> "Ok", v |-> ident]

\* a conversion that rejects the last discriminant
BFieldIdentification_from_strict(ident) ==
    IF ident >= NoSlotRequired
    THEN [kind |-> "Panic", v |-> ident]
    ELSE [kind |-> "Ok", v |-> ident]

\* impl From<u8> for BFieldIdentification
BFieldIdentification_from(ident) ==
    IF ident > NoSlotRequired
    THEN [kind |-> "Panic", v |-> ident]
    ELSE [kind |-> "Ok", v |-> ident]

\* a length table without the entry of NoSlotRequired
blen_no_zero(b_field_ident) ==
    CASE b_field_ident = DoubleSlotRequired -> 100
      [] b_field_ident = HalfSlotRequired -> 10
      [] OTHER -> 40

\* the payload length parse computes from the payload-size class
blen(b_field_ident) ==
    CASE b_field_ident = DoubleSlotRequired -> 100
      [] b_field_ident = HalfSlotRequired -> 10
      [] b_field_ident = NoSlotRequired -> 0
      [] OTHER -> 40

-----------------------------------------------------------------------------
(* ChannelState, Sync, DecoderState and Decoder::parse (src/src/decode.rs) *)

NewMessage == [kind |-> "NewMessage"]
\* a sync match that leaves the state variant as it was
AField_stays(sync) == [kind |-> "NewMessage", sync |-> sync]

AField(sync) == [kind |-> "AField", sync |-> sync]
BField(sync, header, tail, length) ==
    [kind |-> "BField", sync |-> sync, header |-> header, tail |-> tail,
     length |-> length]

Fp(n) == [tag |-> "Fp", raw |-> n]
Pp(n) == [tag |-> "Pp", raw |-> n]

MoreData == [kind |-> "MoreData"]
Partial == [kind |-> "Partial"]
Full(packet) == [kind |-> "Full", packet |-> packet]
Panic == [kind |-> "Panic"]

\* Option<BitVec>
NoBField == [some |-> FALSE, bits |-> <<>>]
SomeBField(b) == [some |-> TRUE, bits |-> b]

\* what one parse() call leaves: the decoder, the returned value, and the
\* A-field block it read with the bit position it read it from (<<>> if it
\* read none)
Outcome(b, s, r, block) ==
    [bits |-> b, state |-> s, ret |-> r, block |-> block, log |-> <<>>]

\* println!("CRC error!")
CrcErrorLine == [kind |-> "crc_error"]
\* println!("{:?}", macpacket)
PacketLine(packet) == [kind |-> "packet", packet |-> packet]

\* a CRC test that is left out
CrcError_never(bytes) == FALSE

\* a CRC test with the comparison inverted
CrcError_inverted(bytes) == crc(bytes) = 0

\* the test of the A-field block: bytes.crc() != 0
CrcError(bytes) == crc(bytes) # 0

\* the arm ChannelState::NewMessage
parse_NewMessage(dec) ==
    LET l == BitIterator_len(dec.bits)
    IN  IF l.kind = "Panic" THEN Outcome(dec.bits, dec.state, Panic, <<>>)
        ELSE IF NeedMoreData(dec.bits, 64)
        THEN Outcome(dec.bits, dec.state, MoreData, <<>>)
        ELSE
        LET sync == find(dec.bits)
        IN  CASE sync.kind = "Panic" ->
                    Outcome(sync.it, dec.state, Panic, <<>>)
              [] sync.kind = "None" ->
                    Outcome(sync.it, dec.state, MoreData, <<>>)
              [] sync.kind = "Some" /\ Low24(sync.value) = FP_SYNC ->
                    Outcome(sync.it, AField(Fp(sync.value)), Partial, <<>>)
              [] sync.kind = "Some" /\ Low24(sync.value) # FP_SYNC
                                    /\ Low24(sync.value) = PP_SYNC ->
                    Outcome(sync.it, AField(Pp(sync.value)), Partial, <<>>)
              [] OTHER ->  \* unreachable!()
                    Outcome(sync.it, dec.state, Panic, <<>>)

\* a header record with the q1/bck flag and the q2 flag exchanged
MACHeader_of_swapped(header) ==
    [kind |-> "Ok",
     header |-> [tail_ident |-> [table |-> "Pp", v |-> header \div 32],
                 q1_bck_bit |-> (header % 2 = 1),
                 b_field_ident |-> (header \div 2) % 8,
                 q2_bit |-> ((header \div 16) % 2 = 1)]]

\* the header record built from the header byte, or a panic of a conversion
MACHeader_of(header) ==
    LET tail_ident == TailIdentificationPP_from(header \div 32)
        b_field_ident == BFieldIdentification_from((header \div 2) % 8)
    IN  IF tail_ident.kind = "Panic" \/ b_field_ident.kind = "Panic"
        THEN [kind |-> "Panic"]
        ELSE [kind |-> "Ok",
              header |-> [tail_ident |-> [table |-> "Pp", v |-> tail_ident.v],
                          q1_bck_bit |-> ((header \div 16) % 2 = 1),
                          b_field_ident |-> b_field_ident.v,
                          q2_bit |-> (header % 2 = 1)]]

\* an AField arm that drops the block and starts again from the first bit
parse_AField_rewind(dec) ==
    Outcome(BitIterator_new(dec.bits.inner), NewMessage, Partial, <<>>)

\* the arm ChannelState::AField { sync }
parse_AField(dec) ==
    LET l == BitIterator_len(dec.bits)
    IN  IF l.kind = "Panic" THEN Outcome(dec.bits, dec.state, Panic, <<>>)
        ELSE IF NeedMoreData(dec.bits, 64)
        THEN Outcome(dec.bits, dec.state, MoreData, <<>>)
        ELSE
        LET data == nth(dec.bits, 63)
        IN  CASE data.kind = "Panic" ->
                    Outcome(data.it, dec.state, Panic, <<>>)
              [] data.kind = "None" ->
                    Outcome(data.it, dec.state, MoreData, <<>>)
              [] OTHER ->
                LET bytes == data.value
                    block == <<bytes, data.start>>
                    header == MACHeader_of(bytes[8])
                    tail == <<bytes[3], bytes[4], bytes[5], bytes[6], bytes[7]>>
                IN  IF CrcError(bytes)
                    THEN [Outcome(data.it, NewMessage, Partial, block)
                            EXCEPT !.log = <<CrcErrorLine>>]
                    ELSE IF header.kind = "Panic"
                    THEN Outcome(data.it, dec.state, Panic, block)
                    ELSE Outcome(data.it,
                                 BField(dec.state.sync, header.header, tail,
                                        blen(header.header.b_field_ident)),
                                 Partial, block)

\* the arm ChannelState::BField { sync, header, tail, length }
parse_BField(dec) ==
    LET l == BitIterator_len(dec.bits)
        length == dec.state.length
    IN  IF l.kind = "Panic" THEN Outcome(dec.bits, dec.state, Panic, <<>>)
        ELSE IF NeedMoreData(dec.bits, length)
        THEN Outcome(dec.bits, dec.state, MoreData, <<>>)
        ELSE IF length = 0
        THEN Outcome(dec.bits, NewMessage,
                     Full([header |-> dec.state.header,
                           tail |-> dec.state.tail,
                           b_field |-> NoBField]), <<>>)
        ELSE
        LET b_field == peek_bits(dec.bits, length)
        IN  IF b_field.kind # "Some"   \* expect("Out of bounds despite check!")
            THEN Outcome(dec.bits, dec.state, Panic, <<>>)
            ELSE
            LET skipped == nth(dec.bits, length - 1)
            IN  IF skipped.kind # "Some"   \* expect("Out of bounds despite check!")
                THEN Outcome(skipped.it, dec.state, Panic, <<>>)
                ELSE Outcome(skipped.it, NewMessage,
                             Full([header |-> dec.state.header,
                                   tail |-> dec.state.tail,
                                   b_field |-> SomeBField(b_field.bits)]), <<>>)

\* Decoder::parse
parse(dec) ==
    CASE dec.state.kind = "NewMessage" -> parse_NewMessage(dec)
      [] dec.state.kind = "AField" -> parse_AField(dec)
      [] dec.state.kind = "BField" -> parse_BField(dec)

\* impl Extend<u8> for Decoder
Decoder_extend(dec, iter) ==
    [dec EXCEPT !.bits = BitIterator_extend(dec.bits, iter)]

-----------------------------------------------------------------------------
(* The input streams the data source supplies.                             *)

\* the seed that makes the CRC of seed ++ block zero: the register is
\* stepped back from 1 over the 48 bits of block, last bit first
RECURSIVE Unwind(_, _, _)
Unwind(reg, block, k) ==
    IF k = 0 THEN reg
    ELSE IF (reg + BitAt(block, k - 1)) % 2 = 1
    THEN Unwind(32768 + (Xor(reg, GP, 16) \div 2), block, k - 1)
    ELSE Unwind(reg \div 2, block, k - 1)

SeedFor(block) == Unwind(1, block, 48)

\* an A-field block with a zero CRC for the tail and the header byte
GoodBlock(tail, header) ==
    LET s == SeedFor(tail \o <<header>>)
    IN  <<s \div 256, s % 256>> \o tail \o <<header>>

\* the same block with the low bit of its seed flipped: a non-zero CRC
BadBlock(tail, header) ==
    LET g == GoodBlock(tail, header)
    IN  [g EXCEPT ![2] = Xor(g[2], 1, 8)]

Zeros(n) == [k \in 1..n |-> 0]

\* 64-bit windows ending in the two sync words
FpWindow == <<0, 0, 0, 0, 0, 170, 233, 138>>
PpWindow == <<0, 0, 0, 0, 0, 85, 22, 117>>

TailA == <<17, 34, 51, 68, 85>>
TailB == <<160, 176, 192, 208, 224>>

\* the number of bytes of a stretch of the stream with no transmission
QuietBytes == 48

\* the pieces an input stream is made of: a sync window, an A-field block
\* and payload bytes; or bytes with no sync word
Pieces ==
    << \* Fixed Part, NoSlotRequired (no payload)
       FpWindow \o GoodBlock(TailA, 14),
       \* Portable Part, HalfSlotRequired (10 bits)
       PpWindow \o GoodBlock(TailB, 201) \o <<195, 165>>,
       \* Fixed Part, class 0b000 (40 bits)
       FpWindow \o GoodBlock(TailA, 48) \o <<195, 165, 60, 90, 129>>,
       \* Fixed Part, a block whose CRC is not zero
       FpWindow \o BadBlock(TailB, 14),
       \* no sync word: one bit differs from the Fixed Part sync word
       <<0, 0, 0, 0, 0, 171, 233, 138>> \o Zeros(8),
       \* no sync word: a quiet stretch
       Zeros(QuietBytes) >>

\* the number of zero bytes that follow the pieces of an input stream
PadBytes == 60
\* an input stream starts with 0 .. MaxShift zero bits
MaxShift == 1

\* bytes preceded by sh zero bits (and followed by 8 - sh, for sh > 0)
ShiftBits(sh, bytes) ==
    IF sh = 0 THEN bytes
    ELSE [k \in 1..(Len(bytes) + 1) |->
            ((IF k = 1 THEN 0 ELSE (bytes[k - 1] * Pow2(8 - sh)) % 256)
             + (IF k > Len(bytes) THEN 0 ELSE bytes[k] \div Pow2(sh)))]

Inputs ==
    { ShiftBits(sh, Pieces[p] \o Pieces[q] \o Zeros(PadBytes)) :
        sh \in 0..MaxShift, p \in 1..Len(Pieces), q \in 1..Len(Pieces) }

-----------------------------------------------------------------------------
(* run() of src/src/decode.rs: the decoder driven by a data source.        *)

\* FileChannel::BUFFER_SIZE
BUFFER_SIZE == 2048
\* a data source that returns at most this many bytes per recv()
ShortRead == 24
\* the sizes of the reads of the data sources
ChunkSizes == {1, ShortRead, BUFFER_SIZE}

\* the decoder of run(): Decoder { bits: BitIterator::new([]), state: NewMessage }
Decoder_new == [bits |-> BitIterator_new(<<>>), state |-> NewMessage]

\* the record of a call: its name, the decoder as the call found it, and
\* the A-field block the call read (<<>> if none)
Entry(op, block) ==
    [op |-> op, bit |-> bits.bit, index |-> bits.index,
     len |-> Len(bits.inner), state |-> state,
     block |-> IF block = <<>> THEN <<>> ELSE block[1]]

NoCall ==
    [op |-> "new", bit |-> 7, index |-> 0, len |-> 0,
     state |-> NewMessage, block |-> <<>>]

NoAField == [block |-> <<>>, start |-> 0]

\* the lines one iteration of the loop prints: what parse() printed, and
\* DecoderState::Full(macpacket) => println!("{:?}", macpacket)
Printed(o) ==
    IF o.ret.kind = "Full"
    THEN o.log \o <<PacketLine(o.ret.packet)>>
    ELSE o.log

\* no call of Rcrc::crc apart from those of parse
NoCrcCall ==
    /\ crcIn = <<>>
    /\ crcOut = [kind |-> "None"]

\* run() of capture.rs is not called, and no data source is turned into
\* a stream
NoCapture ==
    /\ token = FALSE
    /\ orch = "none"
    /\ chan = <<>>
    /\ strm = [kind |-> "none"]

Init ==
    /\ source \in Inputs
    /\ chunk \in ChunkSizes
    /\ bits = Decoder_new.bits
    /\ state = Decoder_new.state
    /\ ret = [kind |-> "None"]
    /\ call = NoCall
    /\ afield = NoAField
    /\ stdout = <<>>
    /\ pc = "parse"
    /\ NoCrcCall
    /\ NoCapture

\* while let Ok(state) = decoder.parse().await: one call of parse(); on
\* MoreData the loop goes on to recv, on Partial and on Full (whose packet
\* is printed) to the next parse
Parse ==
    /\ pc = "parse"
    /\ \E o \in {parse([bits |-> bits, state |-> state])} :
           /\ bits' = o.bits
           /\ state' = o.state
           /\ ret' = o.ret
           /\ call' = Entry("parse", o.block)
           /\ afield' = IF o.block = <<>> THEN afield
                        ELSE [block |-> o.block[1], start |-> o.block[2]]
           /\ stdout' = stdout \o Printed(o)
           /\ pc' = CASE o.ret.kind = "MoreData" -> "recv"
                      [] o.ret.kind = "Panic" -> "panic"
                      [] OTHER -> "parse"
    /\ UNCHANGED <<source, chunk>>
    /\ UNCHANGED nonDecVars

\* DataSource::recv: the next bytes of the source, at most chunk of them,
\* none at the end of the source
recv(src, n) == SubSeq(src, 1, IF n < Len(src) THEN n ELSE Len(src))

\* DecoderState::MoreData => { let buf = data.recv().await?; decoder.extend(buf) }
Recv ==
    /\ pc = "recv"
    /\ \E buf \in {recv(source, chunk)} :
         \E d \in {Decoder_extend([bits |-> bits, state |-> state], buf)} :
           /\ bits' = d.bits
           /\ state' = d.state
           /\ source' = SubSeq(source, Len(buf) + 1, Len(source))
    /\ call' = Entry("extend", <<>>)
    /\ pc' = "parse"
    /\ UNCHANGED <<ret, afield, stdout, chunk>>
    /\ UNCHANGED nonDecVars

Next ==
    \/ Parse
    \/ Recv

Spec == Init /\ [][Next]_vars

-----------------------------------------------------------------------------
(* The loop of run() with the ways it ends: parse() never returns Err, so  *)
(* `while let Ok(state)` never ends it, and it ends only when              *)
(* data.recv().await? propagates an error of the read.  The loop is       *)
(* sequential code that keeps being run: parse and recv are weakly fair.   *)

\* self.file.read(&mut buf).await? fails and run() returns the error
RecvErr ==
    /\ pc = "recv"
    /\ pc' = "returned"
    /\ call' = Entry("recv", <<>>)
    /\ UNCHANGED <<bits, state, ret, afield, stdout, source, chunk>>
    /\ UNCHANGED nonDecVars

\* the input file holds at most MaxLoopBytes bytes
MaxLoopBytes == 4

\* the input files, read in one piece or byte by byte: short ones, whose
\* bytes stay below the 64 bits parse() asks for, so that every turn of the
\* loop is parse() returning MoreData followed by recv()
LoopFiles == UNION { [1..n -> {0, 170}] : n \in 0..MaxLoopBytes }

InitLoop ==
    /\ source \in LoopFiles
    /\ chunk \in {1, BUFFER_SIZE}
    /\ bits = Decoder_new.bits
    /\ state = Decoder_new.state
    /\ ret = [kind |-> "None"]
    /\ call = NoCall
    /\ afield = NoAField
    /\ stdout = <<>>
    /\ pc = "parse"
    /\ NoCrcCall
    /\ NoCapture

NextLoop ==
    \/ Parse
    \/ Recv
    \/ RecvErr

SpecLoop ==
    /\ InitLoop
    /\ [][NextLoop]_vars
    /\ WF_vars(Parse)
    /\ WF_vars(Recv)

-----------------------------------------------------------------------------
(* The same loop started on every header byte, and on decoders built as    *)
(* Decoder { bits: BitIterator::new(buffer), state } over short buffers    *)
(* (the fields of Decoder are pub).                                         *)

\* the buffers of the built decoders hold 0 .. MaxShort bytes
MaxShort == 7
\* the number of zero bytes that follow the frame of a header byte
ProbePad == 90
\* the header bytes
HeaderBytes == 0..255

\* the stream of one frame with header byte h
HeaderInput(h) == FpWindow \o GoodBlock(TailA, h) \o Zeros(ProbePad)

\* the first n bytes of a stream
Prefix(bytes, n) == SubSeq(bytes, 1, n)

ShortBuffers ==
    { Prefix(b, n) : n \in 0..MaxShort,
                     b \in {Zeros(MaxShort), GoodBlock(TailA, 14),
                            <<170, 233, 138>> \o GoodBlock(TailB, 201)} }

\* a header of class NoSlotRequired, as the AField arm builds it
NoSlotHeader ==
    [tail_ident |-> [table |-> "Pp", v |-> 0],
     q1_bck_bit |-> FALSE,
     b_field_ident |-> NoSlotRequired,
     q2_bit |-> FALSE]

BuiltStates ==
    { NewMessage, AField(Fp(FpWindow)), AField(Pp(PpWindow)),
      BField(Fp(FpWindow), NoSlotHeader, TailA, blen(NoSlotRequired)) }

\* the decoders and the streams the loop is started on
Starts ==
    { [dec |-> [bits |-> BitIterator_new(b), state |-> st],
       source |-> <<>>, chunk |-> BUFFER_SIZE] :
        b \in ShortBuffers, st \in BuiltStates }
    \cup
    { [dec |-> Decoder_new, source |-> HeaderInput(h), chunk |-> c] :
        h \in HeaderBytes, c \in {ShortRead, BUFFER_SIZE} }

InitCtor ==
    /\ \E st \in Starts :
           /\ bits = st.dec.bits
           /\ state = st.dec.state
           /\ source = st.source
           /\ chunk = st.chunk
    /\ ret = [kind |-> "None"]
    /\ call = NoCall
    /\ afield = NoAField
    /\ stdout = <<>>
    /\ pc = "parse"
    /\ NoCrcCall
    /\ NoCapture

SpecCtor == InitCtor /\ [][Next]_vars

-----------------------------------------------------------------------------
(* Rcrc::crc called on its own, on 8-byte arrays.                          *)

\* the seeds 0 .. MaxSeed are tried with every block
MaxSeed == 255

\* the 6-byte blocks (five tail bytes and the header byte)
CrcBlocks ==
    { TailA \o <<14>>, TailB \o <<201>>, Zeros(6),
      <<255, 255, 255, 255, 255, 255>>, <<128, 0, 0, 0, 0, 1>>,
      <<5, 137, 5, 137, 5, 137>> }

\* the 2-byte seeds tried with a block: the low ones, the one that gives
\* the CRC 0, and those one bit away from it
CrcSeeds(block) ==
    (0..MaxSeed) \cup {SeedFor(block)}
    \cup { Xor(SeedFor(block), Pow2(i), 16) : i \in 0..15 }

\* the array [u8; 8] made of a seed and a block
SeedBlock(seed, block) == <<seed \div 256, seed % 256>> \o block

CrcInputs ==
    UNION { { SeedBlock(seed, block) : seed \in CrcSeeds(block) } :
              block \in CrcBlocks }

\* the decoder of run() before the loop, with nothing to read
IdleDecoder ==
    /\ bits = Decoder_new.bits
    /\ state = Decoder_new.state
    /\ ret = [kind |-> "None"]
    /\ call = NoCall
    /\ afield = NoAField
    /\ stdout = <<>>
    /\ source = <<>>
    /\ chunk = BUFFER_SIZE

InitCrc ==
    /\ IdleDecoder
    /\ pc = "crc"
    /\ crcIn \in CrcInputs
    /\ crcOut = [kind |-> "None"]
    /\ NoCapture

\* bytes.crc()
Crc ==
    /\ pc = "crc"
    /\ crcOut.kind = "None"
    /\ crcOut' = [kind |-> "Some", v |-> crc(crcIn)]
    /\ UNCHANGED <<decVars, crcIn, capVars, strm>>

NextCrc ==
    \/ Crc

SpecCrc == InitCrc /\ [][NextCrc]_vars

-----------------------------------------------------------------------------
(* The BitIterator of a decoder called method by method, in any order:     *)
(* next, peek_bits, len and extend, and parse of the decoder that owns it. *)

\* the buffers hold at most MaxIterBytes bytes
MaxIterBytes == 10

\* the bytes the buffers are made of
IterStream == <<18, 52, 86, 120, 154, 188, 222, 240, 15, 30, 45, 60>>

\* the numbers of bits asked of peek_bits
PeekSizes == {0, 1, 10, 64}

InitIter ==
    /\ \E n \in 0..MaxIterBytes :
           /\ bits = BitIterator_new(Prefix(IterStream, n))
           /\ source = SubSeq(IterStream, n + 1, MaxIterBytes)
    /\ state = NewMessage
    /\ ret = [kind |-> "None"]
    /\ call = NoCall
    /\ afield = NoAField
    /\ stdout = <<>>
    /\ chunk = 1
    /\ pc = "iter"
    /\ NoCrcCall
    /\ NoCapture

\* self.bits.next()
IterNext ==
    /\ pc = "iter"
    /\ \E r \in {BitIterator_next(bits)} :
           /\ bits' = r.it
           /\ ret' = [kind |-> r.kind, value |-> r.value]
           /\ pc' = IF r.kind = "Panic" THEN "panic" ELSE "iter"
    /\ call' = Entry("next", <<>>)
    /\ UNCHANGED <<state, afield, stdout, source, chunk, nonDecVars>>

\* self.bits.peek_bits(n)
IterPeek ==
    /\ pc = "iter"
    /\ \E n \in PeekSizes :
           \E r \in {peek_bits(bits, n)} :
               /\ ret' = [kind |-> r.kind, bits |-> r.bits, n |-> n]
               /\ pc' = IF r.kind = "Panic" THEN "panic" ELSE "iter"
    /\ call' = Entry("peek", <<>>)
    /\ UNCHANGED <<bits, state, afield, stdout, source, chunk, nonDecVars>>

\* self.bits.len()
IterLen ==
    /\ pc = "iter"
    /\ \E r \in {BitIterator_len(bits)} :
           /\ ret' = [kind |-> r.kind, n |-> r.n]
           /\ pc' = IF r.kind = "Panic" THEN "panic" ELSE "iter"
    /\ call' = Entry("len", <<>>)
    /\ UNCHANGED <<bits, state, afield, stdout, source, chunk, nonDecVars>>

\* decoder.extend(buf) with the next bytes of the stream
IterExtend ==
    /\ pc = "iter"
    /\ source # <<>>
    /\ \E buf \in {recv(source, chunk)} :
           /\ bits' = Decoder_extend([bits |-> bits, state |-> state], buf).bits
           /\ source' = SubSeq(source, Len(buf) + 1, Len(source))
    /\ call' = Entry("extend", <<>>)
    /\ UNCHANGED <<state, ret, afield, stdout, chunk, pc, nonDecVars>>

\* decoder.parse()
IterParse ==
    /\ pc = "iter"
    /\ \E o \in {parse([bits |-> bits, state |-> state])} :
           /\ bits' = o.bits
           /\ state' = o.state
           /\ ret' = o.ret
           /\ call' = Entry("parse", o.block)
           /\ afield' = IF o.block = <<>> THEN afield
                         ELSE [block |-> o.block[1], start |-> o.block[2]]
           /\ stdout' = stdout \o Printed(o)
           /\ pc' = IF o.ret.kind = "Panic" THEN "panic" ELSE "iter"
    /\ UNCHANGED <<source, chunk, nonDecVars>>

NextIter ==
    \/ IterNext
    \/ IterPeek
    \/ IterLen
    \/ IterExtend
    \/ IterParse

SpecIter == InitIter /\ [][NextIter]_vars

-----------------------------------------------------------------------------
(* run() of src/src/capture.rs: one set-up future per channel (bind the    *)
(* socket, open the file, spawn the task), the tasks, and the wait for the *)
(* duration or Ctrl-C that cancels the token.  A task is the future         *)
(*   token.run_until_cancelled(async { while let Some(packet) =            *)
(*       stream.next().await { file.write_all(&packet?).await? } })        *)
(* which tests the token each time it is polled, before it polls the loop, *)
(* and drops the loop where it is suspended when the token is cancelled.   *)
(* The loop is suspended at one of its two awaits: stream.next() or        *)
(* file.write_all().                                                        *)

\* args.channels
NChannels == 2
\* a socket receives at most MaxDatagrams datagrams
MaxDatagrams == 2
\* write_all writes a datagram in WriteSteps pieces
WriteSteps == 2

Channels == 1..NChannels

\* a channel before its set-up future has run
NewChannel ==
    [pc |-> "bind", at |-> "none", got |-> 0, hand |-> 0, units |-> 0,
     file |-> <<>>]

\* the pieces from .. to of datagram d
Units(d, from, to) == [k \in 1..(to - from + 1) |-> <<d, from + k - 1>>]

\* what one poll of file.write_all(&packet) can leave of channel ch with
\* datagram d in hand: all pieces written (Ready(Ok)), the pieces up to k
\* written and the write pending (k at least lo), or the pieces up to k
\* written and an error
WriteOutcomes(ch, d, lo) ==
    { [ch EXCEPT !.pc = "recv", !.hand = 0, !.units = 0,
                 !.file = ch.file \o Units(d, ch.units + 1, WriteSteps)] }
    \cup
    { [ch EXCEPT !.pc = "write", !.hand = d, !.units = k,
                 !.file = ch.file \o Units(d, ch.units + 1, k)] :
        k \in lo..(WriteSteps - 1) }
    \cup
    { [ch EXCEPT !.pc = "failed", !.at = "write", !.hand = d, !.units = k,
                 !.file = ch.file \o Units(d, ch.units + 1, k)] :
        k \in ch.units..(WriteSteps - 1) }

\* the variables of the decoder but stdout
decQuiet == <<bits, state, ret, call, afield, source, chunk, pc>>

InitCapture ==
    /\ IdleDecoder
    /\ pc = "capture"
    /\ NoCrcCall
    /\ token = FALSE
    /\ orch = "setup"
    /\ chan = [c \in Channels |-> NewChannel]
    /\ strm = [kind |-> "none"]

\* UdpChannel::new(2323 + index, index).await?
Bind(c) ==
    /\ orch = "setup"
    /\ chan[c].pc = "bind"
    /\ \/ chan' = [chan EXCEPT ![c].pc = "open"]
       \/ chan' = [chan EXCEPT ![c].pc = "failed", ![c].at = "bind"]
    /\ UNCHANGED <<decVars, crcVars, strm, token, orch>>

\* File::open(path).await?, then tokio::spawn(..) and Ok(handle)
Open(c) ==
    /\ orch = "setup"
    /\ chan[c].pc = "open"
    /\ \/ chan' = [chan EXCEPT ![c].pc = "recv"]
       \/ chan' = [chan EXCEPT ![c].pc = "failed", ![c].at = "open"]
    /\ UNCHANGED <<decVars, crcVars, strm, token, orch>>

\* the set-up futures are collected: .collect::<Result<Vec<_>>>()?
Collected ==
    /\ orch = "setup"
    /\ \A c \in Channels : chan[c].pc \notin {"bind", "open"}
    /\ orch' = IF \E c \in Channels : chan[c].at \in {"bind", "open"}
               THEN "returned_err"
               ELSE "select"
    /\ UNCHANGED <<decVars, crcVars, strm, token, chan>>

\* the sleep of args.duration seconds ends; token.cancel(); Ok(())
Deadline ==
    /\ orch = "select"
    /\ stdout' = stdout \o <<[kind |-> "duration_reached"]>>
    /\ token' = TRUE
    /\ orch' = "returned_ok"
    /\ UNCHANGED <<decQuiet, crcVars, strm, chan>>

\* tokio::signal::ctrl_c() resolves; token.cancel(); Ok(())
Interrupt ==
    /\ orch = "select"
    /\ stdout' = stdout \o <<[kind |-> "ctrl_c"]>>
    /\ token' = TRUE
    /\ orch' = "returned_ok"
    /\ UNCHANGED <<decQuiet, crcVars, strm, chan>>

\* the task is polled while it waits in stream.next(), the token not
\* cancelled, and the socket has something: a zero-length datagram (the
\* stream filters it out), an error, or a datagram, which the same poll
\* goes on to write
TaskRecv(c) ==
    /\ chan[c].pc = "recv"
    /\ ~token
    /\ chan[c].got < MaxDatagrams
    /\ \/ chan' = [chan EXCEPT ![c].got = @ + 1]
       \/ chan' = [chan EXCEPT ![c].pc = "failed", ![c].at = "recv"]
       \/ \E ch \in WriteOutcomes([chan[c] EXCEPT !.got = @ + 1],
                                  chan[c].got + 1, 0) :
              chan' = [chan EXCEPT ![c] = ch]
    /\ UNCHANGED <<decVars, crcVars, strm, token, orch>>

\* the task is polled while it waits in file.write_all(), the token not
\* cancelled, and the write goes on
TaskWrite(c) ==
    /\ chan[c].pc = "write"
    /\ ~token
    /\ \E ch \in WriteOutcomes(chan[c], chan[c].hand, chan[c].units + 1) :
           chan' = [chan EXCEPT ![c] = ch]
    /\ UNCHANGED <<decVars, crcVars, strm, token, orch>>

\* the task is polled with the token cancelled: run_until_cancelled
\* returns None and the loop is dropped where it waits
TaskCancel(c) ==
    /\ chan[c].pc \in {"recv", "write"}
    /\ token
    /\ chan' = [chan EXCEPT ![c].pc = "cancelled", ![c].at = chan[c].pc]
    /\ UNCHANGED <<decVars, crcVars, strm, token, orch>>

\* run() has returned without awaiting the JoinHandles: the runtime that
\* drove it shuts down and drops a task where it waits
Shutdown(c) ==
    /\ orch \in {"returned_ok", "returned_err"}
    /\ chan[c].pc \in {"recv", "write"}
    /\ chan' = [chan EXCEPT ![c].pc = "dropped", ![c].at = chan[c].pc]
    /\ UNCHANGED <<decVars, crcVars, strm, token, orch>>

NextCapture ==
    \/ \E c \in Channels : Bind(c)
    \/ \E c \in Channels : Open(c)
    \/ Collected
    \/ Deadline
    \/ Interrupt
    \/ \E c \in Channels : TaskRecv(c)
    \/ \E c \in Channels : TaskWrite(c)
    \/ \E c \in Channels : TaskCancel(c)
    \/ \E c \in Channels : Shutdown(c)

SpecCapture == InitCapture /\ [][NextCapture]_vars

-----------------------------------------------------------------------------
(* DataSource::into_stream of FileChannel and of UdpChannel, polled by     *)
(* stream.next().  Both are try_unfold over recv(): an Ok(buffer) is an    *)
(* item, an Err is an item after which the stream ends.  FileChannel drops *)
(* the empty buffers with filter_map (the closure's None) and fuses the    *)
(* result; UdpChannel drops them with filter.                              *)

\* the file of a FileChannel holds at most MaxFileBytes bytes
MaxFileBytes == 4
\* the length of a datagram that is not empty
DatagramBytes == 5

\* the lengths of the datagrams a socket receives, in order
NetScripts ==
    UNION { [1..n -> {0, DatagramBytes}] : n \in 0..MaxDatagrams }

\* the items of a stream: Ok(buffer), by the length of the buffer, and Err
OkItem(n) == [ok |-> TRUE, len |-> n]
ErrItem == [ok |-> FALSE, len |-> 0]

\* a stream nothing was asked of yet
NewStream(kind, net) ==
    [kind |-> kind, net |-> net, out |-> <<>>, done |-> FALSE,
     failed |-> FALSE, empties |-> 0]

InitStream ==
    /\ bits = Decoder_new.bits
    /\ state = Decoder_new.state
    /\ ret = [kind |-> "None"]
    /\ call = NoCall
    /\ afield = NoAField
    /\ stdout = <<>>
    /\ pc = "stream"
    /\ NoCrcCall
    /\ token = FALSE
    /\ orch = "none"
    /\ chan = <<>>
    /\ \/ /\ \E n \in 0..MaxFileBytes : source = Zeros(n)
          /\ chunk \in {1, BUFFER_SIZE}
          /\ strm = NewStream("File", <<>>)
       \/ /\ source = <<>>
          /\ chunk = BUFFER_SIZE
          /\ \E net \in NetScripts : strm = NewStream("Udp", net)

\* the number of zero-length receives so far, counted up to 2
CountEmpty(n) == IF n < 2 THEN n + 1 ELSE n

\* stream.next() on the stream of a FileChannel: this.recv() reads the
\* file; a buffer that is not empty is the item, an empty one is dropped
\* by filter_map and recv() is called again
FileStreamRecv ==
    /\ strm.kind = "File"
    /\ ~strm.done
    /\ ~strm.failed
    /\ \E buf \in {recv(source, chunk)} :
           /\ source' = SubSeq(source, Len(buf) + 1, Len(source))
           /\ strm' = IF buf = <<>>
                       THEN [strm EXCEPT !.empties = CountEmpty(@)]
                       ELSE [strm EXCEPT !.out = Append(@, OkItem(Len(buf)))]
    /\ UNCHANGED <<bits, state, ret, call, afield, stdout, chunk, pc,
                   crcVars, capVars>>

\* stream.next() on the stream of a UdpChannel: this.recv() returns the
\* next datagram; filter drops the empty ones
UdpStreamRecv ==
    /\ strm.kind = "Udp"
    /\ ~strm.done
    /\ ~strm.failed
    /\ strm.net # <<>>
    /\ strm' = IF Head(strm.net) = 0
                THEN [strm EXCEPT !.net = Tail(@),
                                  !.empties = CountEmpty(@)]
                ELSE [strm EXCEPT !.net = Tail(@),
                                  !.out = Append(@, OkItem(Head(strm.net)))]
    /\ UNCHANGED <<decVars, crcVars, capVars>>

\* this.recv().await? fails: the error is the item
StreamRecvErr ==
    /\ strm.kind \in {"File", "Udp"}
    /\ ~strm.done
    /\ ~strm.failed
    /\ strm' = [strm EXCEPT !.failed = TRUE, !.out = Append(@, ErrItem)]
    /\ UNCHANGED <<decVars, crcVars, capVars>>

\* stream.next() after the error: try_unfold has ended, the item is None
StreamEnd ==
    /\ strm.kind \in {"File", "Udp"}
    /\ strm.failed
    /\ ~strm.done
    /\ strm' = [strm EXCEPT !.done = TRUE]
    /\ UNCHANGED <<decVars, crcVars, capVars>>

NextStream ==
    \/ FileStreamRecv
    \/ UdpStreamRecv
    \/ StreamRecvErr
    \/ StreamEnd

SpecStream == InitStream /\ [][NextStream]_vars

-----------------------------------------------------------------------------
(* The decoder of run() called from outside the loop of run(): extend and  *)
(* parse in any order, so that parse() also runs between two extends of a  *)
(* frame and extend() also runs while parse() has not asked for more data. *)

\* the number of zero bytes that follow a frame of these streams
FreePad == 40

\* the streams: a frame of class DoubleSlotRequired (100 bits) whose header
\* byte has the largest tail identification, a frame of class
\* HalfSlotRequired (10 bits), and bytes with no sync word
FreeStreams ==
    { FpWindow \o GoodBlock(TailB, 229) \o Zeros(56 + FreePad),
      PpWindow \o GoodBlock(TailA, 201) \o <<195, 165>> \o Zeros(FreePad),
      IterStream \o Zeros(FreePad) \o IterStream }

\* the number of bytes of one extend call
ExtendSizes == {1, 16, 128}

InitFree ==
    /\ source \in FreeStreams
    /\ chunk \in ExtendSizes
    /\ bits = Decoder_new.bits
    /\ state = Decoder_new.state
    /\ ret = [kind |-> "None"]
    /\ call = NoCall
    /\ afield = NoAField
    /\ stdout = <<>>
    /\ pc = "iter"
    /\ NoCrcCall
    /\ NoCapture

NextFree ==
    \/ IterExtend
    \/ IterParse

SpecFree == InitFree /\ [][NextFree]_vars

-----------------------------------------------------------------------------
(* The decoder with all the bytes of a stream in its buffer and parse()    *)
(* called again and again, with no extend in between.                      *)

InitFixed ==
    /\ \E input \in Inputs :
           bits = Decoder_extend(Decoder_new, input).bits
    /\ state = Decoder_new.state
    /\ source = <<>>
    /\ chunk = BUFFER_SIZE
    /\ ret = [kind |-> "None"]
    /\ call = NoCall
    /\ afield = NoAField
    /\ stdout = <<>>
    /\ pc = "iter"
    /\ NoCrcCall
    /\ NoCapture

NextFixed == IterParse

SpecFixed == InitFixed /\ [][NextFixed]_vars

-----------------------------------------------------------------------------
(* Views of the state the claims are stated on.                            *)

\* the packets of the Full results so far, in order
Packets ==
    LET lines == SelectSeq(stdout, LAMBDA e : e.kind = "packet")
    IN  [k \in 1..Len(lines) |-> lines[k].packet]

\* the loop of run() has taken every byte of the source and parse() has
\* returned MoreData on all of them
Drained == source = <<>> /\ pc = "recv"

\* the bit position the next read starts from, of the cursor (index, bit)
CursorStart(index, bit) == index * 8 + bit

\* the number of next() calls that lead from a fresh cursor to (index, bit)
CursorSteps(index, bit) == index * 8 + (7 - bit)

\* the n bits of the stream at positions pos .. pos+n-1 (<<>> if the
\* buffer does not hold them all)
StreamBits(inner, pos, n) ==
    IF pos + n > BitLen(inner) THEN <<>>
    ELSE [k \in 1..n |-> BitAt(inner, pos + k - 1)]

\* the 64-bit window at bit position pos ends in a sync word
SyncWordAt(inner, pos) ==
    LET low == ByteAt(inner, pos + 40) * 65536 + ByteAt(inner, pos + 48) * 256
               + ByteAt(inner, pos + 56)
    IN  low = 11200906 \/ low = 5576309

\* some complete 64-bit window of the buffer ends in a sync word
HasSyncWord(inner) ==
    \E pos \in 0..(BitLen(inner) - 64) : SyncWordAt(inner, pos)

-----------------------------------------------------------------------------
(* C1: chunk-size independence.                                            *)

\* parse() until it returns MoreData (or panics), collecting the packets
RECURSIVE Drain(_, _)
Drain(dec, out) ==
    LET o == parse(dec)
    IN  IF o.ret.kind \in {"MoreData", "Panic"}
        THEN [dec |-> [bits |-> o.bits, state |-> o.state], out |-> out,
              ret |-> o.ret]
        ELSE Drain([bits |-> o.bits, state |-> o.state],
                   IF o.ret.kind = "Full" THEN Append(out, o.ret.packet)
                   ELSE out)

\* the Full results of a fresh decoder driven by 'parse() until MoreData,
\* then extend' when all the bytes are supplied in a single extend call
WholeRun(bytes) ==
    LET first == Drain(Decoder_new, <<>>)
        second == Drain(Decoder_extend(first.dec, bytes), first.out)
    IN  second.out

\* C1: once the loop has been driven to the end of a byte sequence supplied
\* in single-byte extend calls, the sequence of Full(packet) results is the
\* one the same bytes yield when supplied in a single extend call.
C1_ChunkIndependence ==
    (Drained /\ chunk = 1) => Packets = WholeRun(bits.inner)

\* two packets, the second with a payload, decoded from single bytes
C1_Witness ==
    /\ Drained
    /\ chunk = 1
    /\ Len(Packets) = 2
    /\ Packets[2].b_field.some

-----------------------------------------------------------------------------
(* C2: the payload of a Full.                                              *)

\* C2: a parse() in BField with length > 0 that returns Full returns as
\* payload exactly the length bits that follow the 64-bit A-field block in
\* the stream, and leaves the cursor length bits past the start of the
\* payload.
C2_PayloadFollowsAField ==
    (/\ call.op = "parse"
     /\ call.state.kind = "BField"
     /\ call.state.length > 0
     /\ ret.kind = "Full")
    => /\ ret.packet.b_field.some
       /\ ret.packet.b_field.bits =
              StreamBits(bits.inner, afield.start + 64, call.state.length)
       /\ CursorStart(bits.index, bits.bit) =
              afield.start + 64 + call.state.length

-----------------------------------------------------------------------------
(* C3: the gate of AField and BField.                                      *)

\* the bits buffered from the cursor when the last call was entered
BitsBuffered == 8 * call.len - CursorStart(call.index, call.bit)

\* C3: a parse() in AField returns MoreData exactly when fewer than 64 bits
\* are buffered from the cursor, a parse() in BField exactly when fewer
\* than length bits are.
C3_GateBitGranular ==
    /\ (call.op = "parse" /\ call.state.kind = "AField")
       => (ret.kind = "MoreData" <=> BitsBuffered < 64)
    /\ (call.op = "parse" /\ call.state.kind = "BField")
       => (ret.kind = "MoreData" <=> BitsBuffered < call.state.length)

-----------------------------------------------------------------------------
(* C4: sync detection.                                                     *)

\* the bit positions, from the cursor the last call was entered with, of
\* the complete 64-bit windows that end in a sync word
SyncPositions ==
    { pos \in CursorStart(call.index, call.bit)..(8 * call.len - 64) :
        SyncWordAt(bits.inner, pos) }

\* the least element of a non-empty set of numbers
Least(S) == CHOOSE x \in S : \A y \in S : x <= y

\* C4: a parse() in NewMessage with a complete 64-bit window ending in a
\* sync word buffered from the cursor returns Partial and enters AField
\* with the earliest such window, tagged Fp for 0xAAE98A and Pp for
\* 0x551675.
C4_SyncAnyAlignment ==
    (/\ call.op = "parse"
     /\ call.state.kind = "NewMessage"
     /\ SyncPositions # {})
    => /\ ret.kind = "Partial"
       /\ state.kind = "AField"
       /\ state.sync.raw = WindowAt(bits.inner, Least(SyncPositions))
       /\ state.sync.tag =
              IF Low24(state.sync.raw) = 11200906 THEN "Fp" ELSE "Pp"

-----------------------------------------------------------------------------
(* C5: every packet comes from a block with a zero CRC.                    *)

\* the header fields of a header byte
HeaderFields(h) ==
    [tail_ident |-> [table |-> "Pp", v |-> h \div 32],
     q1_bck_bit |-> ((h \div 16) % 2 = 1),
     b_field_ident |-> (h \div 2) % 8,
     q2_bit |-> (h % 2 = 1)]

\* C5: a Full carries the header byte and the five tail bytes of the last
\* A-field block read, whose CRC is 0 and which was read in AField after a
\* sync match; a block with a non-zero CRC leads to neither BField nor a
\* Full.
C5_FullFromValidBlock ==
    /\ ret.kind = "Full"
       => /\ afield.block # <<>>
          /\ crc(afield.block) = 0
          /\ ret.packet.header = HeaderFields(afield.block[8])
          /\ ret.packet.tail = SubSeq(afield.block, 3, 7)
    /\ state.kind = "BField"
       => /\ afield.block # <<>>
          /\ crc(afield.block) = 0
          /\ Low24(state.sync.raw) \in {11200906, 5576309}
    /\ (call.op = "parse" /\ call.block # <<>>)
       => /\ call.state.kind = "AField"
          /\ Low24(call.state.sync.raw) \in {11200906, 5576309}
          /\ (crc(call.block) # 0 => state.kind # "BField" /\ ret.kind # "Full")

\* a packet returned after a block with a non-zero CRC was dropped
C5_Witness ==
    /\ ret.kind = "Full"
    /\ call.op = "parse"
    /\ Len(stdout) = 2
    /\ stdout[1].kind = "crc_error"
    /\ stdout[2].kind = "packet"

-----------------------------------------------------------------------------
(* C6: a CRC failure resets the state.                                     *)

\* C6: a parse() in AField that reads a block with a non-zero CRC returns
\* Partial, leaves the state NewMessage and the cursor right after the
\* block's 64 next() calls (no scan), prints the CRC error and no packet,
\* and the loop goes on with the next parse().
C6_CrcFailureResets ==
    (/\ call.op = "parse"
     /\ call.state.kind = "AField"
     /\ call.block # <<>>
     /\ crc(call.block) # 0)
    => /\ ret.kind = "Partial"
       /\ state = NewMessage
       /\ CursorSteps(bits.index, bits.bit) =
              CursorSteps(call.index, call.bit) + 64
       /\ stdout # <<>>
       /\ stdout[Len(stdout)].kind = "crc_error"
       /\ pc = "parse"

\* a CRC failure after a packet was decoded
C6_Witness ==
    /\ call.op = "parse"
    /\ call.state.kind = "AField"
    /\ call.block # <<>>
    /\ crc(call.block) # 0
    /\ ret.kind = "Partial"
    /\ Len(Packets) = 1

-----------------------------------------------------------------------------
(* C8: no sync word, no progress.                                          *)

\* C8: while no 64-bit window of the buffered stream ends in a sync word,
\* every parse() has returned MoreData and the state is NewMessage.
C8_NoSyncStaysNewMessage ==
    (state.kind # "NewMessage" \/ ret.kind \notin {"None", "MoreData"})
    => HasSyncWord(bits.inner)

\* a whole stream with no sync word has been scanned
C8_Witness ==
    /\ Drained
    /\ ret.kind = "MoreData"
    /\ state.kind = "NewMessage"
    /\ bits.index > QuietBytes
    /\ ~HasSyncWord(bits.inner)

-----------------------------------------------------------------------------
(* C7: fewer than 64 bits buffered.                                        *)

\* C7: a parse() in NewMessage or AField on a buffer of fewer than 64 bits
\* returns MoreData and leaves the state as it was: NewMessage stays
\* NewMessage, AField stays AField with the same sync.
C7_ShortBufferMoreData ==
    (/\ call.op = "parse"
     /\ call.state.kind \in {"NewMessage", "AField"}
     /\ 8 * call.len < 64)
    => /\ ret = MoreData
       /\ state = call.state

\* a parse() in AField on a non-empty buffer of fewer than 64 bits
C7_Witness ==
    /\ call.op = "parse"
    /\ call.state.kind = "AField"
    /\ call.len > 0
    /\ 8 * call.len < 64
    /\ ret = MoreData
    /\ state.kind = "AField"

-----------------------------------------------------------------------------
(* C9: the class with no payload.                                          *)

\* the payload-size class of a header byte
ClassOf(h) == (h \div 2) % 8

\* C9: a block with a zero CRC and class 0b111 leads to BField with length
\* 0 and straight to the next parse(); that parse() returns Full with no
\* payload, whatever is buffered, and leaves the cursor where it was.
C9_NoSlotCompletesAtOnce ==
    /\ (/\ call.op = "parse"
        /\ call.block # <<>>
        /\ crc(call.block) = 0
        /\ ClassOf(call.block[8]) = 7)
       => /\ state.kind = "BField"
          /\ state.length = 0
          /\ pc = "parse"
    /\ (/\ call.op = "parse"
        /\ call.state.kind = "BField"
        /\ call.state.header.b_field_ident = 7)
       => /\ ret.kind = "Full"
          /\ ret.packet.b_field = NoBField
          /\ ret.packet.header = call.state.header
          /\ ret.packet.tail = call.state.tail
          /\ bits.index = call.index
          /\ bits.bit = call.bit
          /\ Len(bits.inner) = call.len

\* a frame of class 0b111 completed right after its block was read from a
\* stream that arrives in short reads
C9_Witness ==
    /\ call.op = "parse"
    /\ call.state.kind = "BField"
    /\ call.state.header.b_field_ident = 7
    /\ afield.block # <<>>
    /\ ClassOf(afield.block[8]) = 7
    /\ chunk = ShortRead
    /\ source # <<>>
    /\ ret.kind = "Full"
    /\ ret.packet.b_field = NoBField

-----------------------------------------------------------------------------
(* C10: the payload length of every header byte.                           *)

\* the payload length of a payload-size class
LengthOfClass(c) ==
    IF c = 2 THEN 100 ELSE IF c = 4 THEN 10 ELSE IF c = 7 THEN 0 ELSE 40

\* C10: no call aborts, and a parse() that reads a block with a zero CRC
\* enters BField with the header fields of the block's header byte and the
\* length 100 for class 0b010, 10 for 0b100, 0 for 0b111 and 40 for the
\* other five classes.
C10_LengthTotal ==
    /\ ret.kind # "Panic"
    /\ pc # "panic"
    /\ (/\ call.op = "parse"
        /\ call.block # <<>>
        /\ crc(call.block) = 0)
       => /\ ret = Partial
          /\ state.kind = "BField"
          /\ state.header.b_field_ident = ClassOf(call.block[8])
          /\ state.header.tail_ident.v = call.block[8] \div 32
          /\ state.length = LengthOfClass(ClassOf(call.block[8]))

\* the block of the header byte 0xFF has been classified
C10_Witness ==
    /\ call.op = "parse"
    /\ call.block # <<>>
    /\ crc(call.block) = 0
    /\ call.block[8] = 255
    /\ state.kind = "BField"
    /\ state.length = 0
    /\ state.header.tail_ident.v = 7

-----------------------------------------------------------------------------
(* C11: a seed that makes the CRC zero.                                    *)

\* the seed and the block of the array crc was applied to
SeedOf(bytes) == bytes[1] * 256 + bytes[2]
BlockOf(bytes) == SubSeq(bytes, 3, 8)

\* C11: every 6-byte block has a 2-byte seed with which the CRC of the 8
\* bytes is 0, and no other seed gives 0 for that block.
C11_SeedExistsUnique ==
    /\ \E seed \in {SeedFor(BlockOf(crcIn))} :
          /\ seed \in 0..65535
          /\ crc(SeedBlock(seed, BlockOf(crcIn))) = 0
    /\ crcOut.kind = "Some"
       => (crcOut.v = 0 <=> SeedOf(crcIn) = SeedFor(BlockOf(crcIn)))

\* the CRC 0 returned for a block with its seed
C11_Witness ==
    /\ crcOut.kind = "Some"
    /\ crcOut.v = 0
    /\ BlockOf(crcIn) = TailB \o <<201>>
    /\ crcIn[1] = 202
    /\ crcIn[2] = 53

-----------------------------------------------------------------------------
(* C12: the CRC is the bit-serial division.                                *)

\* the register after the bits k .. 47 of the block, most significant bit
\* of each byte first, were folded into reg
RECURSIVE BitSerial(_, _, _)
BitSerial(reg, block, k) ==
    IF k = 48 THEN reg
    ELSE IF reg >= 32768
    THEN BitSerial(Xor(((reg * 2) % 65536) + BitAt(block, k), 1417, 16),
                   block, k + 1)
    ELSE BitSerial(((reg * 2) % 65536) + BitAt(block, k), block, k + 1)

\* the result of the bit-serial computation on 8 bytes
BitSerialCrc(bytes) ==
    Xor(BitSerial(SeedOf(bytes), BlockOf(bytes), 0), 1, 16)

\* C12: the CRC of 8 bytes is the result of the bit-serial computation:
\* the register starts as the bytes 0..1, takes in the 48 bits of the
\* bytes 2..7 by a shift left mod 2^16 with the bit ORed in, is XORed with
\* 0x0589 exactly when its top bit was 1 before the shift, and is XORed
\* with 1 at the end.
C12_BitSerialReference ==
    crcOut.kind = "Some" => crcOut.v = BitSerialCrc(crcIn)

\* a non-zero CRC whose computation took both branches
C12_Witness ==
    /\ crcOut.kind = "Some"
    /\ crcOut.v # 0
    /\ crcOut.v = BitSerialCrc(crcIn)
    /\ crcIn = <<0, 1>> \o TailA \o <<14>>

-----------------------------------------------------------------------------
(* C13: next() on a fresh cursor.                                          *)

\* C13: the k-th successful next() on a fresh cursor (k = 0, 1, ...)
\* returns the stream bits k .. k+63 and moves the cursor from bit k to
\* bit k+1; a call succeeds exactly when k + 64 is at most the number of
\* bits buffered, and a call that fails leaves the cursor where it was.
C13_NextStepsOneBit ==
    call.op = "next"
    => LET k == CursorSteps(call.index, call.bit)
       IN  /\ ret.kind = "Some" <=> k + 64 <= 8 * call.len
           /\ ret.kind = "Some"
              => /\ ret.value = WindowAt(bits.inner, k)
                 /\ CursorStart(call.index, call.bit) = k
                 /\ CursorStart(bits.index, bits.bit) = k + 1
           /\ ret.kind # "Some"
              => /\ bits.index = call.index
                 /\ bits.bit = call.bit

-----------------------------------------------------------------------------
(* C14: the cursor never moves backward.                                   *)

\* C14: no call of extend, peek_bits, next, len or parse makes the bit
\* position the next read starts at, index * 8 + bit, smaller.
C14_CursorMonotone ==
    [][CursorStart(bits.index, bits.bit)' >= CursorStart(bits.index, bits.bit)]_vars

-----------------------------------------------------------------------------
(* C15: len() counts bits.                                                 *)

\* C15: len() returns the number of bits stored minus the bit position of
\* the cursor, 8 * (bytes stored) - (index * 8 + bit).
C15_LenIsBitsLeft ==
    call.op = "len"
    => /\ ret.kind = "Ok"
       /\ ret.n = 8 * call.len - CursorStart(call.index, call.bit)

-----------------------------------------------------------------------------
(* C16: peek_bits is total and reads only.                                 *)

\* C16: peek_bits(n) never aborts, returns the n bits from the cursor when
\* that many are buffered and None otherwise, and leaves buffer and cursor
\* as they were.
C16_PeekTotalReadOnly ==
    call.op = "peek"
    => LET start == CursorStart(call.index, call.bit)
       IN  /\ ret.kind # "Panic"
           /\ pc # "panic"
           /\ 8 * call.len - start >= ret.n
              => /\ ret.kind = "Some"
                 /\ ret.bits = StreamBits(bits.inner, start, ret.n)
           /\ 8 * call.len - start < ret.n => ret.kind = "None"
           /\ bits.index = call.index
           /\ bits.bit = call.bit
           /\ Len(bits.inner) = call.len

-----------------------------------------------------------------------------
(* C17: cancellation and writes.                                           *)

\* the file of a channel holds whole datagrams only
WholeDatagrams(file) ==
    /\ Len(file) % WriteSteps = 0
    /\ \A k \in 1..Len(file) :
          /\ file[k][2] = ((k - 1) % WriteSteps) + 1
          /\ file[k][1] = file[k - ((k - 1) % WriteSteps)][1]

\* C17: a task that ended on the cancellation was waiting for the next
\* receive, with no datagram in hand, and every datagram it started to
\* write is whole in its file.
C17_CancelNeverAbortsWrite ==
    \A c \in DOMAIN chan :
        chan[c].pc = "cancelled"
        => /\ chan[c].at = "recv"
           /\ chan[c].hand = 0
           /\ WholeDatagrams(chan[c].file)

-----------------------------------------------------------------------------
(* C18: a failure stays in its channel.                                    *)

\* C18: the I/O failure of a channel (bind, open, receive or write) ends
\* that channel only: run() does not return before the duration or
\* Ctrl-C, and no other channel stops before the token is cancelled.
C18_FaultIsolation ==
    \A c \in DOMAIN chan :
        chan[c].pc = "failed"
        => /\ orch # "returned_err"
           /\ \A d \in DOMAIN chan \ {c} :
                 chan[d].pc \in {"cancelled", "dropped"} => token

-----------------------------------------------------------------------------
(* C19: zero-length receives.                                              *)

\* C19: the stream of a FileChannel has ended once a receive returned no
\* bytes, and the file is not read again; the stream of a UdpChannel
\* drops the zero-length receives and goes on.
C19_ZeroLengthReceive ==
    /\ (strm.kind = "File" /\ strm.empties > 0)
       => /\ strm.done
          /\ strm.empties = 1
    /\ strm.kind = "Udp"
       => /\ \A k \in 1..Len(strm.out) :
                 strm.out[k].ok => strm.out[k].len > 0
          /\ strm.done => strm.failed

-----------------------------------------------------------------------------
(* C20: the loop stops at the end of the file.                             *)

\* C20: once the file has supplied all its bytes, the loop of run()
\* eventually stops: it does not go on with parse() and recv() forever.
C20_LoopStopsAtEndOfFile ==
    (source = <<>>) ~> (pc \in {"returned", "panic"})

-----------------------------------------------------------------------------
(* C21: the frame-assembly protocol.                                       *)

\* the changes of the state variant and the result returned with each
TransitionsTaken ==
    { <<"NewMessage", "AField", "Partial">>,
      <<"AField", "BField", "Partial">>,
      <<"AField", "NewMessage", "Partial">>,
      <<"BField", "NewMessage", "Full">> }

\* C21: a parse() call either leaves the state variant as it was or takes
\* one of NewMessage->AField (Partial), AField->BField (Partial, CRC = 0),
\* AField->NewMessage (Partial, CRC # 0), BField->NewMessage (Full);
\* Partial is returned only with a changed variant, Full only from BField,
\* and MoreData with the variant unchanged.
C21_FrameAssemblyProtocol ==
    call.op = "parse" =>
        /\ call.state.kind # state.kind
           => <<call.state.kind, state.kind, ret.kind>> \in TransitionsTaken
        /\ (call.state.kind = "AField" /\ state.kind = "BField")
           => (call.block # <<>> /\ crc(call.block) = 0)
        /\ (call.state.kind = "AField" /\ state.kind = "NewMessage")
           => (call.block # <<>> /\ crc(call.block) # 0)
        /\ ret.kind = "Partial" => call.state.kind # state.kind
        /\ ret.kind = "Full" => call.state.kind = "BField"
        /\ ret.kind = "MoreData" => call.state.kind = state.kind

\* the fourth transition, taken with a payload after the other three
C21_Witness ==
    /\ call.op = "parse"
    /\ call.state.kind = "BField"
    /\ state.kind = "NewMessage"
    /\ ret.kind = "Full"
    /\ ret.packet.b_field.some
    /\ stdout[1].kind = "crc_error"

-----------------------------------------------------------------------------
(* C22: the A-field block and the cursor.                                  *)

\* C22: a parse() in AField that reads a block reads the 64 bits that
\* start at the bit position the cursor had on entry, and leaves the cursor
\* 64 bits further, at the first bit after the block.
C22_BlockAtEntryCursor ==
    (/\ call.op = "parse"
     /\ call.state.kind = "AField"
     /\ call.block # <<>>)
    => /\ afield.start = CursorStart(call.index, call.bit)
       /\ call.block = WindowAt(bits.inner, CursorStart(call.index, call.bit))
       /\ CursorStart(bits.index, bits.bit) =
              CursorStart(call.index, call.bit) + 64
       /\ CursorStart(bits.index, bits.bit) = afield.start + 64

-----------------------------------------------------------------------------
(* C23: the header byte and the tail of a CRC-valid A-field block.         *)

\* bit number k (0 = least significant) of the byte h is set
BitSet(h, k) == (h \div Pow2(k)) % 2 = 1

\* C23: after a parse() in AField that read a block with a zero CRC, the
\* stored header has tail identification h >> 5 (Portable-Part table),
\* q1/bck = bit 4 of h, payload-size class (h >> 1) & 7 and q2 = bit 0 of h
\* for the header byte h = block[7], and the stored tail is bytes 2..6 of
\* the block; the packet of the Full that follows carries that header and
\* that tail.
C23_HeaderDecoding ==
    /\ (/\ call.op = "parse"
        /\ call.state.kind = "AField"
        /\ call.block # <<>>
        /\ crc(call.block) = 0)
       => /\ state.kind = "BField"
          /\ state.header.tail_ident.table = "Pp"
          /\ state.header.tail_ident.v = call.block[8] \div 32
          /\ state.header.q1_bck_bit = BitSet(call.block[8], 4)
          /\ state.header.b_field_ident = (call.block[8] % 16) \div 2
          /\ state.header.q2_bit = BitSet(call.block[8], 0)
          /\ state.tail = [k \in 1..5 |-> call.block[k + 2]]
    /\ (/\ call.op = "parse"
        /\ call.state.kind = "BField"
        /\ ret.kind = "Full")
       => /\ ret.packet.header = call.state.header
          /\ ret.packet.tail = call.state.tail
          /\ afield.block # <<>>
             => /\ ret.packet.header.tail_ident.v = afield.block[8] \div 32
                /\ ret.packet.header.q1_bck_bit = BitSet(afield.block[8], 4)
                /\ ret.packet.header.b_field_ident
                       = (afield.block[8] % 16) \div 2
                /\ ret.packet.header.q2_bit = BitSet(afield.block[8], 0)
                /\ ret.packet.tail = [k \in 1..5 |-> afield.block[k + 2]]

\* the packet of a header byte with q1/bck set, q2 clear, tail
\* identification 5 and the payload-size class 3
C23_Witness ==
    /\ call.op = "parse"
    /\ call.state.kind = "BField"
    /\ ret.kind = "Full"
    /\ afield.block # <<>>
    /\ afield.block[8] = 182
    /\ ret.packet.header.q1_bck_bit
    /\ ~ret.packet.header.q2_bit
    /\ ret.packet.header.tail_ident.v = 5
    /\ ret.packet.header.b_field_ident = 3

-----------------------------------------------------------------------------
(* C24: MoreData in AField and in BField is returned before anything is    *)
(* changed.                                                                *)

\* C24: a parse() call that finds the state AField or BField and returns
\* MoreData leaves the state with all its fields, the buffer and the
\* cursor as they were.
C24_MoreDataChangesNothing ==
    [][(/\ call'.op = "parse"
        /\ ret'.kind = "MoreData"
        /\ state.kind \in {"AField", "BField"})
       => (state' = state /\ bits' = bits)]_vars

\* MoreData returned in BField, between two extend calls of a payload
C24_Witness ==
    /\ call.op = "parse"
    /\ call.state.kind = "BField"
    /\ ret.kind = "MoreData"
    /\ state.kind = "BField"
    /\ state.length = 100
    /\ source # <<>>

-----------------------------------------------------------------------------
(* C25: parse() does not panic.                                            *)

\* C25: on the decoder of run() (empty buffer, NewMessage), with extend
\* and parse() called in any order, no parse() call panics: each returns
\* MoreData, Partial or Full.
C25_ParseNeverAborts ==
    /\ pc # "panic"
    /\ call.op = "parse" => ret.kind \in {"MoreData", "Partial", "Full"}

\* a packet with a 100-bit payload and the largest tail identification,
\* returned while bytes are still to come
C25_Witness ==
    /\ call.op = "parse"
    /\ ret.kind = "Full"
    /\ ret.packet.b_field.some
    /\ Len(ret.packet.b_field.bits) = 100
    /\ ret.packet.header.tail_ident.v = 7
    /\ source # <<>>

-----------------------------------------------------------------------------
(* C26: a scan that finds no sync word consumes what it inspected.         *)

\* the bit position the window of the next() call number s (from 0) of a
\* fresh cursor starts at: bit 7 down to bit 0 of each byte in turn
StepStart(s) == CursorStart(s \div 8, 7 - (s % 8))

-----------------------------------------------------------------------------
(* C27: extend only appends.                                               *)

\* C27: an extend call does not fail, leaves the state and the cursor as
\* they were, and leaves the buffer as it was followed by the new bytes in
\* the order given (the bytes taken from the front of the source).
C27_ExtendOnlyAppends ==
    [][call'.op = "extend"
       => /\ pc' # "panic"
          /\ state' = state
          /\ bits'.bit = bits.bit
          /\ bits'.index = bits.index
          /\ Len(bits'.inner) >= Len(bits.inner)
          /\ SubSeq(bits'.inner, 1, Len(bits.inner)) = bits.inner
          /\ bits'.inner \o source' = bits.inner \o source]_vars

\* an extend in the middle of a frame, after a Partial and with the cursor
\* moved, that added bytes to a buffer that held some
C27_Witness ==
    /\ call.op = "extend"
    /\ call.state.kind = "BField"
    /\ ret.kind = "Partial"
    /\ call.len > 0
    /\ Len(bits.inner) > call.len
    /\ bits.index > 0

-----------------------------------------------------------------------------
(* C28: on a fixed buffer parse() comes to MoreData.                       *)

\* the number of next() calls the cursor of the decoder has made
ScanSteps == CursorSteps(bits.index, bits.bit)

\* C28: with a fixed buffer, only finitely many parse() calls return
\* Partial or Full, and from then on every parse() call returns MoreData;
\* no parse() call moves the cursor back, each Partial moves it forward by
\* at least one next() call, and it never passes the end of the buffer.
C28_BoundedProgress ==
    /\ <>[][call'.op = "parse" => ret'.kind = "MoreData"]_vars
    /\ [][call'.op = "parse"
          => /\ bits'.inner = bits.inner
             /\ ScanSteps' >= ScanSteps
             /\ ScanSteps' <= BitLen(bits.inner)
             /\ ret'.kind = "Partial" => ScanSteps' > ScanSteps
             /\ ret'.kind = "Full" => state.kind = "BField"]_vars

\* MoreData returned after two cycles, the second one with a packet
C28_Witness ==
    /\ call.op = "parse"
    /\ ret.kind = "MoreData"
    /\ Len(stdout) = 2
    /\ stdout[2].kind = "packet"
    /\ CursorSteps(bits.index, bits.bit) > 128
    /\ source = <<>>

=============================================================================
